---------------------------- MODULE Spec2Model ----------------------------
(***************************************************************************)
(* A model of the atlas metrics SDK: the metric matcher, the facility      *)
(* filter, the NDJSON decoder, the grouping of historical values and the   *)
(* MetricsReader.read orchestration (src/atlas/metrics.py,                 *)
(* src/atlas/atlas_client.py, src/atlas/models.py).                        *)
(*                                                                         *)
(* Python values are modelled as follows.                                  *)
(*   str            a TLA+ string; Chars(s) gives its characters where the *)
(*                  regular-expression engine needs them                   *)
(*   None (a str)   the string "None"                                      *)
(*   Optional[x]    <<>> when absent, <<x>> when present (numbers)         *)
(*   float          [nan |-> BOOLEAN, v |-> Int]                           *)
(*   list           a sequence                                             *)
(*   dict           a sequence of entries with distinct keys, in insertion *)
(*                  order (Python dicts keep insertion order)              *)
(***************************************************************************)
EXTENDS Integers, Sequences, FiniteSets, TLC

VARIABLES
    \* ---- matcher run (_get_filtered_constructs_by_id on one device)
    m_pc, m_device, m_metrics, m_result,
    \* ---- facility filter run (AtlasClient.filter_facilities)
    f_pc, f_listing, f_filter, f_out,
    \* ---- grouping run (MetricsReader._process_historical_values)
    g_pc,               \* "readings", "settings": the loop being run; "done"; "error"
    g_reading_results,  \* the reading records consumed so far
    g_setting_results,  \* the setting records consumed so far
    g_cur,              \* source, device and timestamp of the record being consumed
    g_grouped,          \* the dict grouped
    g_result,           \* result[facility.short_name]
    g_error,
    \* ---- decoder run (the NDJSON loops of get_historical_*_values)
    d_pc, d_endpoint, d_lines, d_out,
    \* ---- read run (MetricsReader.read)
    r_pc,               \* the step read is at
    r_args,             \* filter, start, end, interval, aggregate_by, flatten
    r_requests,         \* the transport requests issued so far, in order
    r_response,         \* what the transport answered to the last of them
    r_metrics_by_device_kind,
    r_facilities,       \* what filter_facilities returned
    r_i,                \* index of the facility the loop is at
    r_devices,
    r_queries,          \* the dicts and query lists of the facility
    r_reading_values,
    r_setting_values,
    r_result,
    r_out               \* what read returned or raised

matchVars == <<m_pc, m_device, m_metrics, m_result>>
filterVars == <<f_pc, f_listing, f_filter, f_out>>
groupVars == <<g_pc, g_reading_results, g_setting_results, g_cur, g_grouped,
               g_result, g_error>>
decodeVars == <<d_pc, d_endpoint, d_lines, d_out>>
readVars == <<r_pc, r_args, r_requests, r_response, r_metrics_by_device_kind, r_facilities, r_i,
              r_devices, r_queries, r_reading_values, r_setting_values, r_result, r_out>>
vars == <<matchVars, filterVars, groupVars, decodeVars, readVars>>

\* what the actions of one component leave alone
notMatchVars == <<filterVars, groupVars, decodeVars, readVars>>
notFilterVars == <<matchVars, groupVars, decodeVars, readVars>>
notGroupVars == <<matchVars, filterVars, decodeVars, readVars>>
notDecodeVars == <<matchVars, filterVars, groupVars, readVars>>
notReadVars == <<matchVars, filterVars, groupVars, decodeVars>>

---------------------------------------------------------------------------
(* Bounds of the model *)

\* most constructs on one device of a matcher run
MaxConstructs == 2
\* most metric specs in the list of a matcher run
MaxSpecs == 2
\* most facilities the user has access to
MaxFacilities == 2
\* most names in a facility filter
MaxFilter == 2
\* most records (reading and setting records together) of a grouping run
MaxRecords == 2
\* most result entries (of all records together) of a grouping run
MaxResults == 2
\* most lines of a streamed response
MaxLines == 3

---------------------------------------------------------------------------
(* Generic helpers *)

None == "None"

SeqsUpTo(S, n) == UNION {[1..k -> S] : k \in 0..n}

Range(s) == {s[i] : i \in DOMAIN s}

MapSeq(F(_), seq) == [i \in DOMAIN seq |-> F(seq[i])]

\* d[key] = value, d[key] and `key in d` for a dict d of [key, value] entries
DictPut(d, key, value) ==
    IF \E i \in DOMAIN d : d[i].key = key
    THEN [i \in DOMAIN d |-> IF d[i].key = key THEN [key |-> key, value |-> value] ELSE d[i]]
    ELSE Append(d, [key |-> key, value |-> value])
DictHas(d, key) == \E i \in DOMAIN d : d[i].key = key
DictGet(d, key) == d[CHOOSE i \in DOMAIN d : d[i].key = key].value
DictKeys(d) == {d[i].key : i \in DOMAIN d}
DictValues(d) == {d[i].value : i \in DOMAIN d}

\* an exception: its type and what its message names
\* the outcome of a call: a value, or an exception with what its message names
\* and (for an exception raised from a caught one) the caught one's type
NoError == [type |-> None, names |-> {}, cause |-> None]
Raise(type, names) ==
    [ok |-> FALSE, value |-> <<>>, error |-> [type |-> type, names |-> names, cause |-> None]]
RaiseFrom(type, names, caught) ==
    [ok |-> FALSE, value |-> <<>>,
     error |-> [type |-> type, names |-> names, cause |-> caught.type]]
Return(value) == [ok |-> TRUE, value |-> value, error |-> NoError]

\* The characters of the strings the model uses (TLC strings are atomic).
Chars(s) ==
    CASE s = "" -> <<>>
      [] s = "Pres" -> <<"P", "r", "e", "s">>
      [] s = ".*Pressure" -> <<".", "*", "P", "r", "e", "s", "s", "u", "r", "e">>
      [] s = "Pressure" -> <<"P", "r", "e", "s", "s", "u", "r", "e">>
      [] s = "SuctionPressure" ->
            <<"S", "u", "c", "t", "i", "o", "n",
              "P", "r", "e", "s", "s", "u", "r", "e">>

---------------------------------------------------------------------------
(* models.py: MetricType, DeviceKind, the constructs of a device *)

\* MetricType, in the order the StrEnum declares (and iterates) its members
MetricType == <<"control_point", "metric", "output", "condition", "setting">>

DeviceKind == {"compressor", "evaporator", "condenser", "vessel", "energy meter"}

AggregateBy == {"avg", "min", "max", "first", "last"}

\* A construct is [id, alias, metric_type]: ControlPoint, Metric, Output,
\* Condition and Setting all expose id, alias (Setting: its name) and the
\* metric_type of their class.
Construct(id, alias, metric_type) ==
    [id |-> id, alias |-> alias, metric_type |-> metric_type]

\* Device: id, alias, kind, name and one list of constructs per kind.
Device(id, kind, constructs) ==
    [id |-> id, alias |-> id, kind |-> kind, name |-> id,
     control_points |-> SelectSeq(constructs, LAMBDA c : c.metric_type = "control_point"),
     metrics |-> SelectSeq(constructs, LAMBDA c : c.metric_type = "metric"),
     outputs |-> SelectSeq(constructs, LAMBDA c : c.metric_type = "output"),
     conditions |-> SelectSeq(constructs, LAMBDA c : c.metric_type = "condition"),
     settings |-> SelectSeq(constructs, LAMBDA c : c.metric_type = "setting")]

\* a mutant of DeviceConstructs: every construct of the device, whatever its kind
AllDeviceConstructs(device, metric_type) ==
    device.control_points \o device.metrics \o device.outputs
        \o device.conditions \o device.settings

\* getattr(device, f"{metric_type.value}s")
DeviceConstructs(device, metric_type) ==
    CASE metric_type = "control_point" -> device.control_points
      [] metric_type = "metric" -> device.metrics
      [] metric_type = "output" -> device.outputs
      [] metric_type = "condition" -> device.conditions
      [] metric_type = "setting" -> device.settings

\* DeviceMetric
DeviceMetric(name, alias_regex, device_kind, metric_type) ==
    [name |-> name, alias_regex |-> alias_regex,
     device_kind |-> device_kind, metric_type |-> metric_type]

---------------------------------------------------------------------------
(* Python's re, for the patterns the model uses: a pattern is a sequence   *)
(* of atoms, each a character or "." (any character), optionally starred.  *)

\* re.compile(pattern): the atoms of a pattern string
RECURSIVE re_compile_chars(_)
re_compile_chars(cs) ==
    IF cs = <<>> THEN <<>>
    ELSE IF Len(cs) >= 2 /\ cs[2] = "*"
         THEN <<[ch |-> cs[1], star |-> TRUE]>> \o re_compile_chars(SubSeq(cs, 3, Len(cs)))
         ELSE <<[ch |-> cs[1], star |-> FALSE]>> \o re_compile_chars(Tail(cs))

re_compile(pattern) == re_compile_chars(Chars(pattern))

AtomMatches(atom, c) == atom.ch = "." \/ atom.ch = c

\* whether atoms i.. match the text from position j on, the match ending at
\* position e (exclusive); any e is accepted by MatchFrom (a prefix match)
RECURSIVE MatchFrom(_, _, _, _)
MatchFrom(atoms, i, text, j) ==
    IF i > Len(atoms) THEN TRUE
    ELSE IF atoms[i].star
         THEN \/ MatchFrom(atoms, i + 1, text, j)
              \/ /\ j <= Len(text)
                 /\ AtomMatches(atoms[i], text[j])
                 /\ MatchFrom(atoms, i, text, j + 1)
         ELSE /\ j <= Len(text)
              /\ AtomMatches(atoms[i], text[j])
              /\ MatchFrom(atoms, i + 1, text, j + 1)

\* pattern.match(s): a match anchored at position 0, of any length
re_match(atoms, s) == MatchFrom(atoms, 1, Chars(s), 1)

---------------------------------------------------------------------------
(* metrics.py: MetricsReader._get_filtered_constructs_by_id *)

\* {metric.name for metric in metrics if metric.metric_type == metric_type}
metric_names(metrics, metric_type) ==
    {metrics[i].name : i \in {k \in DOMAIN metrics : metrics[k].metric_type = metric_type}}

\* [re.compile(metric.alias_regex) for metric in metrics
\*  if metric.metric_type == metric_type and metric.alias_regex]
RECURSIVE metric_regexps(_, _)
metric_regexps(metrics, metric_type) ==
    IF metrics = <<>> THEN <<>>
    ELSE (IF Head(metrics).metric_type = metric_type /\ Head(metrics).alias_regex # ""
          THEN <<re_compile(Head(metrics).alias_regex)>>
          ELSE <<>>) \o metric_regexps(Tail(metrics), metric_type)

\* a mutant of AnyPatternMatches: only the first pattern is tried
FirstPatternMatches(regexps, alias) ==
    regexps # <<>> /\ re_match(regexps[1], alias)

\* any(pattern.match(construct.alias) for pattern in metric_regexps)
AnyPatternMatches(regexps, alias) ==
    \E i \in DOMAIN regexps : re_match(regexps[i], alias)

\* for construct in contructs: ... (one construct kind)
RECURSIVE ScanConstructs(_, _, _, _)
ScanConstructs(result, constructs, names, regexps) ==
    IF constructs = <<>> THEN result
    ELSE LET construct == Head(constructs)
             next == IF construct.alias \in names
                     THEN DictPut(result, construct.id, construct)
                     ELSE IF AnyPatternMatches(regexps, construct.alias)
                          THEN DictPut(result, construct.id, construct)
                          ELSE result
         IN  ScanConstructs(next, Tail(constructs), names, regexps)

\* for metric_type in MetricType: ... (the kinds from position k on)
RECURSIVE ScanMetricTypes(_, _, _, _)
ScanMetricTypes(result, device, metrics, k) ==
    IF k > Len(MetricType) THEN result
    ELSE LET metric_type == MetricType[k]
             names == metric_names(metrics, metric_type)
             regexps == metric_regexps(metrics, metric_type)
         IN  IF names = {} /\ regexps = <<>>
             THEN ScanMetricTypes(result, device, metrics, k + 1)
             ELSE ScanMetricTypes(
                      ScanConstructs(result, DeviceConstructs(device, metric_type),
                                     names, regexps),
                      device, metrics, k + 1)

get_filtered_constructs_by_id(device, metrics) ==
    ScanMetricTypes(<<>>, device, metrics, 1)

---------------------------------------------------------------------------
(* atlas_client.py: AtlasClient.filter_facilities *)

\* Facility: short_name identifies it to the caller (the filter names it and
\* read's result is keyed by it), display_name is used in error messages;
\* organization_id and agents[0].agent_id address its agent.
DisplayName(short_name) ==
    CASE short_name = "A" -> "Plant A"
      [] short_name = "B" -> "Plant B"
      [] short_name = "C" -> "Plant C"

Facility(short_name) ==
    [short_name |-> short_name, display_name |-> DisplayName(short_name),
     organization_id |-> short_name, agent_id |-> short_name]

\* a mutant of not_found: every name of the filter
not_found_whole_filter(filter, facilities) == Range(filter)

\* set(filter) - set(f.short_name for f in facilities)
not_found(filter, facilities) ==
    Range(filter) \ {facilities[i].short_name : i \in DOMAIN facilities}

\* listing is the outcome of list_facilities(): Return(all_facilities) or a Raise
filter_facilities(listing, filter) ==
    IF ~listing.ok THEN Raise("Error listing facilities", {})
    ELSE LET all_facilities == listing.value
             facilities == SelectSeq(all_facilities,
                                     LAMBDA f : f.short_name \in Range(filter))
         IN  IF filter = <<>> THEN Return(all_facilities)
             ELSE IF Len(facilities) # Len(filter)
                  THEN Raise("Facilities not found", not_found(filter, facilities))
                  ELSE Return(facilities)

---------------------------------------------------------------------------
(* time_helpers.py: parse_dt.                                              *)
(* A time string is [local, suffix]: the wall-clock time it spells (in     *)
(* minutes) and its UTC designator, "Z", an offset such as "+01:00", or "" *)
(* (none). The datetime parse_dt returns is [local, utcoffset], aware.     *)

\* minutes of the UTC offsets a suffix may spell
SuffixOffset(suffix) ==
    CASE suffix = "Z" -> 0
      [] suffix = "+00:00" -> 0
      [] suffix = "+01:00" -> 60
      [] suffix = "-05:00" -> -300

parse_dt(value) ==
    LET v == IF value.suffix = "Z" THEN [value EXCEPT !.suffix = "+00:00"] ELSE value
    IN  IF v.suffix = ""
        THEN [local |-> v.local, utcoffset |-> 0]
        ELSE [local |-> v.local, utcoffset |-> SuffixOffset(v.suffix)]

---------------------------------------------------------------------------
(* metrics.py: MetricsReader._process_historical_values *)

NaN == [nan |-> TRUE, v |-> 0]
Num(x) == [nan |-> FALSE, v |-> x]

MetricValue(timestamp, value) == [timestamp |-> timestamp, value |-> value]

\* str(res.aggregation) if res.aggregation else "avg"
aggregation_key(res) == IF res.aggregation # None THEN res.aggregation ELSE "avg"

\* (device.id, source.id, source.metric_type, aggregation_key)
group_key(device, source, res) ==
    <<device.id, source.id, source.metric_type, aggregation_key(res)>>

\* the dict a group starts as
new_group(device, source, res) ==
    [metric |-> DeviceMetric(source.alias, "", device.kind, source.metric_type),
     device_name |-> device.name,
     device_alias |-> device.alias,
     device_id |-> device.id,
     aggregation |-> aggregation_key(res),
     values |-> <<>>]

\* if group_key not in grouped: grouped[group_key] = {...}
ensure_group(grouped, device, source, res) ==
    IF DictHas(grouped, group_key(device, source, res)) THEN grouped
    ELSE Append(grouped, [key |-> group_key(device, source, res),
                          value |-> new_group(device, source, res)])

\* grouped[group_key]["values"].append(mv)
values_append(grouped, key, mv) ==
    [i \in DOMAIN grouped |->
        IF grouped[i].key = key
        THEN [grouped[i] EXCEPT !.value.values = Append(@, mv)]
        ELSE grouped[i]]

\* a mutant of reading_value: the raw reading
reading_value_raw(res) ==
    IF res.numberValue # <<>> /\ res.numberValue[1].raw # <<>>
    THEN Num(res.numberValue[1].raw[1]) ELSE NaN

\* res.numberValue.scaled if res.numberValue else float('nan')
\* (a ReadingNumberValue object is truthy whatever it holds)
reading_value(res) ==
    IF res.numberValue # <<>> THEN Num(res.numberValue[1].scaled) ELSE NaN

\* the body of `for res in source_result.results` in the readings loop
reading_result_step(grouped, device, source, timestamp, res) ==
    values_append(ensure_group(grouped, device, source, res),
                  group_key(device, source, res),
                  MetricValue(timestamp, reading_value(res)))

\* a mutant of setting_result_step: a missing value becomes a NaN sample
setting_result_step_nan(grouped, device, source, timestamp, res) ==
    values_append(ensure_group(grouped, device, source, res),
                  group_key(device, source, res),
                  MetricValue(timestamp,
                              IF res.numberValue # <<>> THEN Num(res.numberValue[1]) ELSE NaN))

\* the body of `for res in source_result.results` in the settings loop;
\* `if res.numberValue` is false for None and for 0.0
setting_result_step(grouped, device, source, timestamp, res) ==
    LET g == ensure_group(grouped, device, source, res)
    IN  IF res.numberValue # <<>> /\ res.numberValue[1] # 0
        THEN values_append(g, group_key(device, source, res),
                           MetricValue(timestamp, Num(res.numberValue[1])))
        ELSE g

\* source = filtered_constructs_by_id[source_id]
\* device = device_id_to_device[construct_id_to_device_id[source_id]]
\* timestamp = parse_dt(source_result.time)
\* (a KeyError when a dict does not hold the id)
resolve_source(device_id_to_device, filtered_constructs_by_id, construct_id_to_device_id, source_id, time) ==
    IF ~DictHas(filtered_constructs_by_id, source_id) THEN Raise("KeyError", {source_id})
    ELSE IF ~DictHas(construct_id_to_device_id, source_id) THEN Raise("KeyError", {source_id})
    ELSE IF ~DictHas(device_id_to_device, DictGet(construct_id_to_device_id, source_id))
         THEN Raise("KeyError", {DictGet(construct_id_to_device_id, source_id)})
    ELSE Return([source |-> DictGet(filtered_constructs_by_id, source_id),
                 device |-> DictGet(device_id_to_device,
                                    DictGet(construct_id_to_device_id, source_id)),
                 timestamp |-> parse_dt(time)])

\* for _, mv in grouped.items(): result[facility.short_name].append(MetricValues(**mv))
append_groups(result, grouped) ==
    result \o [i \in DOMAIN grouped |-> grouped[i].value]

---------------------------------------------------------------------------
(* atlas_client.py: the NDJSON loops of get_historical_reading_values and  *)
(* get_historical_setting_values.                                          *)
(* A line of the response is [kind |-> "empty"] (the empty string),        *)
(* [kind |-> "text"] (not JSON) or [kind |-> "json", obj |-> o], o the     *)
(* JSON object it spells: each key is <<>> when the object lacks it and    *)
(* <<v>> when it holds v.                                                  *)

\* a mutant of decode_result: a result without aggregation is decoded as avg
decode_result_default_avg(res) ==
    [aggregation |-> IF res.aggregation = <<>> THEN "avg" ELSE res.aggregation[1],
     numberValue |-> res.numberValue]

\* res_obj of the readings loop: the keys of res that are present, then
\* ReadingResult(**res_obj); aggregation must be an AggregateBy value
reading_result_valid(res) == res.aggregation = <<>> \/ res.aggregation[1] \in AggregateBy
decode_result(res) ==
    [aggregation |-> IF res.aggregation = <<>> THEN None ELSE res.aggregation[1],
     numberValue |-> res.numberValue]

\* ReadingSourceResult(**transformed): time and source_id are required strings
reading_record_valid(obj) ==
    /\ obj.time # <<>>
    /\ obj.sourceId # <<>>
    /\ \A i \in DOMAIN obj.results : reading_result_valid(obj.results[i])

decode_reading_record(obj) ==
    [time |-> obj.time[1], source_id |-> obj.sourceId[1],
     results |-> [i \in DOMAIN obj.results |-> decode_result(obj.results[i])]]

\* SettingSourceResult(**transformed): time and setting_id are required strings
setting_record_valid(obj) ==
    /\ obj.time # <<>>
    /\ obj.settingId # <<>>
    /\ \A i \in DOMAIN obj.results : reading_result_valid(obj.results[i])

decode_setting_record(obj) ==
    [time |-> obj.time[1], setting_id |-> obj.settingId[1],
     results |-> [i \in DOMAIN obj.results |-> decode_result(obj.results[i])]]

\* a mutant of decode_reading_lines: a line that does not decode is skipped
RECURSIVE decode_reading_lines_skipping(_, _)
decode_reading_lines_skipping(lines, results) ==
    IF lines = <<>> THEN Return(results)
    ELSE LET line == Head(lines)
         IN  IF line.kind = "json" /\ reading_record_valid(line.obj)
             THEN decode_reading_lines_skipping(
                      Tail(lines), Append(results, decode_reading_record(line.obj)))
             ELSE decode_reading_lines_skipping(Tail(lines), results)

\* for line in response.iter_lines(...): ... results.append(ReadingSourceResult(...))
\* json.loads and the model's validation raise ValueError, which the
\* enclosing try turns into AtlasHTTPError
RECURSIVE decode_reading_lines(_, _)
decode_reading_lines(lines, results) ==
    IF lines = <<>> THEN Return(results)
    ELSE LET line == Head(lines)
         IN  IF line.kind = "empty" THEN decode_reading_lines(Tail(lines), results)
             ELSE IF line.kind = "text" THEN Raise("AtlasHTTPError", {})
             ELSE IF ~reading_record_valid(line.obj) THEN Raise("AtlasHTTPError", {})
             ELSE decode_reading_lines(
                      Tail(lines), Append(results, decode_reading_record(line.obj)))

\* for line in response.iter_lines(...): ... results.append(SettingSourceResult(...))
RECURSIVE decode_setting_lines(_, _)
decode_setting_lines(lines, results) ==
    IF lines = <<>> THEN Return(results)
    ELSE LET line == Head(lines)
         IN  IF line.kind = "empty" THEN decode_setting_lines(Tail(lines), results)
             ELSE IF line.kind = "text" THEN Raise("AtlasHTTPError", {})
             ELSE IF ~setting_record_valid(line.obj) THEN Raise("AtlasHTTPError", {})
             ELSE decode_setting_lines(
                      Tail(lines), Append(results, decode_setting_record(line.obj)))

---------------------------------------------------------------------------
(* models.py: is_valid_metric; metrics.py: the steps of MetricsReader.read *)

\* device_metric_mapping[device_kind]: the values of the kind's metric enum;
\* the mapping has no entry for DeviceKind.energy_meter
device_metric_mapping(device_kind) ==
    CASE device_kind = "compressor" ->
             Return({"DischargePressure", "DischargeTemperature",
                     "SuctionPressure", "SuctionTemperature"})
      [] device_kind = "condenser" -> Return({"DischargePressure", "DischargeTemperature"})
      [] device_kind = "evaporator" -> Return({"SupplyTemperature", "ReturnTemperature"})
      [] device_kind = "vessel" -> Return({"Pressure"})
      [] OTHER -> Raise("KeyError", {device_kind})

\* a mutant of is_valid_metric: every spec is valid
is_valid_metric_always(metric) == Return(TRUE)

is_valid_metric(metric) ==
    IF metric.name # ""
    THEN LET valid_metrics == device_metric_mapping(metric.device_kind)
         IN  IF valid_metrics.ok THEN Return(metric.name \in valid_metrics.value)
             ELSE valid_metrics
    ELSE Return(metric.alias_regex # "")

\* for metric in filter.metrics: ... metrics_by_device_kind[metric.device_kind].append(metric)
RECURSIVE group_metrics_by_device_kind(_, _)
group_metrics_by_device_kind(metrics, by_kind) ==
    IF metrics = <<>> THEN Return(by_kind)
    ELSE LET metric == Head(metrics)
             valid == is_valid_metric(metric)
         IN  IF ~valid.ok THEN valid
             ELSE IF ~valid.value THEN Raise("Invalid metrics type", {metric.name})
             ELSE group_metrics_by_device_kind(
                      Tail(metrics),
                      [by_kind EXCEPT ![metric.device_kind] = Append(@, metric)])

\* the validation that opens read
validate_metrics(metrics) ==
    IF metrics = <<>> THEN Raise("No metrics provided", {})
    ELSE group_metrics_by_device_kind(metrics, [k \in DeviceKind |-> <<>>])

\* filtered_constructs_by_id.update(new_filtered_constructs_by_id)
RECURSIVE DictUpdate(_, _)
DictUpdate(d, new) ==
    IF new = <<>> THEN d
    ELSE DictUpdate(DictPut(d, Head(new).key, Head(new).value), Tail(new))

HistoricalReadingQuery(source_id, aggregate_by) ==
    [source_id |-> source_id, aggregate_by |-> aggregate_by]
HistoricalSettingQuery(setting_id, aggregate_by) ==
    [source |-> [setting_id |-> setting_id], aggregate_by |-> aggregate_by]

\* a mutant of add_queries: every construct gets a reading query
RECURSIVE add_queries_all_readings(_, _, _, _)
add_queries_all_readings(acc, device, constructs, agg_enums) ==
    IF constructs = <<>> THEN acc
    ELSE add_queries_all_readings(
             [acc EXCEPT !.construct_id_to_device_id =
                             DictPut(@, Head(constructs).key, device.id),
                         !.reading_queries =
                             Append(@, HistoricalReadingQuery(Head(constructs).key, agg_enums))],
             device, Tail(constructs), agg_enums)

\* for construct_id, construct in new_filtered_constructs_by_id.items(): ...
RECURSIVE add_queries(_, _, _, _)
add_queries(acc, device, constructs, agg_enums) ==
    IF constructs = <<>> THEN acc
    ELSE LET construct_id == Head(constructs).key
             construct == Head(constructs).value
             mapped == [acc EXCEPT !.construct_id_to_device_id =
                                       DictPut(@, construct_id, device.id)]
         IN  add_queries(
                 IF construct.metric_type = "setting"
                 THEN [mapped EXCEPT !.setting_queries =
                                         Append(@, HistoricalSettingQuery(construct_id, agg_enums))]
                 ELSE [mapped EXCEPT !.reading_queries =
                                         Append(@, HistoricalReadingQuery(construct_id, agg_enums))],
                 device, Tail(constructs), agg_enums)

\* the dicts and query lists read builds for one facility
NoQueries ==
    [device_id_to_device |-> <<>>, filtered_constructs_by_id |-> <<>>,
     construct_id_to_device_id |-> <<>>, reading_queries |-> <<>>, setting_queries |-> <<>>]

\* for device in devices: ...; AggregateBy(a) raises ValueError for a name
\* that is no member of the enum
RECURSIVE build_queries(_, _, _, _)
build_queries(acc, devices, metrics_by_device_kind, aggregate_by) ==
    IF devices = <<>> THEN Return(acc)
    ELSE LET device == Head(devices)
             known == [acc EXCEPT !.device_id_to_device = DictPut(@, device.id, device)]
             metrics_filter == metrics_by_device_kind[device.kind]
             new == get_filtered_constructs_by_id(device, metrics_filter)
         IN  IF metrics_filter = <<>> \/ new = <<>>
             THEN build_queries(known, Tail(devices), metrics_by_device_kind, aggregate_by)
             ELSE IF \E i \in DOMAIN aggregate_by : aggregate_by[i] \notin AggregateBy
             THEN Raise("ValueError", {})
             ELSE build_queries(
                      add_queries([known EXCEPT !.filtered_constructs_by_id = DictUpdate(@, new)],
                                  device, new, aggregate_by),
                      Tail(devices), metrics_by_device_kind, aggregate_by)

---------------------------------------------------------------------------
(* atlas_client.py: get_historical_reading_values and                      *)
(* get_historical_setting_values, from the argument checks to the decoded  *)
(* records. An optional datetime is <<>> (None) or <<[local, tzinfo]>>,    *)
(* tzinfo <<>> for a naive datetime and <<minutes east of UTC>> otherwise. *)

\* the wall-clock minute datetime.now(timezone.utc) reads
Now == 100

\* dt.strftime("%Y-%m-%dT%H:%M:%SZ"): the datetime's own wall-clock fields
\* followed by a literal Z
strftime(dt) == [local |-> dt.local, suffix |-> "Z"]

payload_start(start) ==
    IF start # <<>> THEN strftime(start[1])
    ELSE strftime([local |-> Now - 10, tzinfo |-> <<0>>])

payload_end(end) ==
    IF end # <<>> THEN strftime(end[1])
    ELSE strftime([local |-> Now, tzinfo |-> <<0>>])

\* the checks that precede the request
check_historical_args(start, end, queries) ==
    IF start # <<>> /\ start[1].tzinfo = <<>>
    THEN Raise("ValueError", {"start must be timezone aware"})
    ELSE IF end # <<>> /\ end[1].tzinfo = <<>>
    THEN Raise("ValueError", {"end must be timezone aware"})
    ELSE IF queries = <<>>
    THEN Raise("ValueError", {"queries must be a non-empty list"})
    ELSE Return(<<>>)

\* a transport request
Request(op, facility, payload) ==
    [op |-> op, facility |-> facility.short_name, payload |-> payload]

\* response is what the transport gives: Return(lines) or a raised AtlasHTTPError;
\* the outcome is the method's, with the requests it issued
get_historical_reading_values(facility, start, end, queries, interval, response) ==
    LET checked == check_historical_args(start, end, queries)
        payload == [start |-> payload_start(start), end |-> payload_end(end),
                    interval |-> interval, changes_only |-> FALSE,
                    include_scaled |-> TRUE, include_raw |-> FALSE,
                    queries |-> queries]
        request == Request("POST readings/queries", facility, <<payload>>)
    IN  IF ~checked.ok THEN [out |-> checked, requests |-> <<>>]
        ELSE IF ~response.ok THEN [out |-> response, requests |-> <<request>>]
        ELSE [out |-> decode_reading_lines(response.value, <<>>), requests |-> <<request>>]

get_historical_setting_values(facility, start, end, queries, interval, response) ==
    LET checked == check_historical_args(start, end, queries)
        payload == [start |-> payload_start(start), end |-> payload_end(end),
                    interval |-> interval, changes_only |-> FALSE,
                    queries |-> queries]
        request == Request("POST settings/queries", facility, <<payload>>)
    IN  IF ~checked.ok THEN [out |-> checked, requests |-> <<>>]
        ELSE IF ~response.ok THEN [out |-> response, requests |-> <<request>>]
        ELSE [out |-> decode_setting_lines(response.value, <<>>), requests |-> <<request>>]

\* a mutant of wrap_historical_error: the error names the facility's short name
wrap_historical_error_short_name(called, facility) ==
    IF called.out.ok THEN called
    ELSE [called EXCEPT !.out = RaiseFrom("Error retrieving historical values",
                                          {facility.short_name}, called.out.error)]

\* metrics.py, _get_historical_reading_values and _get_historical_setting_values:
\* except Exception as e: raise Exception("Error retrieving historical values ...")
wrap_historical_error(called, facility) ==
    IF called.out.ok THEN called
    ELSE [called EXCEPT !.out = RaiseFrom("Error retrieving historical values",
                                          {facility.display_name}, called.out.error)]

---------------------------------------------------------------------------
(* metrics.py: _process_historical_values over whole responses, and        *)
(* _flatten_result                                                         *)

\* for res in source_result.results (readings)
RECURSIVE reading_results_loop(_, _, _, _, _)
reading_results_loop(grouped, device, source, timestamp, results) ==
    IF results = <<>> THEN grouped
    ELSE reading_results_loop(
             reading_result_step(grouped, device, source, timestamp, Head(results)),
             device, source, timestamp, Tail(results))

\* a mutant of readings_loop: a record whose source id is unknown is dropped
RECURSIVE readings_loop_dropping(_, _, _, _, _)
readings_loop_dropping(grouped, device_id_to_device, filtered_constructs_by_id, construct_id_to_device_id, reading_results) ==
    IF reading_results = <<>> THEN Return(grouped)
    ELSE LET source_result == Head(reading_results)
             r == resolve_source(device_id_to_device, filtered_constructs_by_id,
                                 construct_id_to_device_id,
                                 source_result.source_id, source_result.time)
         IN  readings_loop_dropping(
                 IF r.ok
                 THEN reading_results_loop(grouped, r.value.device, r.value.source,
                                           r.value.timestamp, source_result.results)
                 ELSE grouped,
                 device_id_to_device, filtered_constructs_by_id,
                 construct_id_to_device_id, Tail(reading_results))

\* for source_result in reading_results
RECURSIVE readings_loop(_, _, _, _, _)
readings_loop(grouped, device_id_to_device, filtered_constructs_by_id, construct_id_to_device_id, reading_results) ==
    IF reading_results = <<>> THEN Return(grouped)
    ELSE LET source_result == Head(reading_results)
             r == resolve_source(device_id_to_device, filtered_constructs_by_id,
                                 construct_id_to_device_id,
                                 source_result.source_id, source_result.time)
         IN  IF ~r.ok THEN r
             ELSE readings_loop(
                      reading_results_loop(grouped, r.value.device, r.value.source,
                                           r.value.timestamp, source_result.results),
                      device_id_to_device, filtered_constructs_by_id,
                      construct_id_to_device_id, Tail(reading_results))

\* for res in source_result.results (settings)
RECURSIVE setting_results_loop(_, _, _, _, _)
setting_results_loop(grouped, device, source, timestamp, results) ==
    IF results = <<>> THEN grouped
    ELSE setting_results_loop(
             setting_result_step(grouped, device, source, timestamp, Head(results)),
             device, source, timestamp, Tail(results))

\* for source_result in setting_results
RECURSIVE settings_loop(_, _, _, _, _)
settings_loop(grouped, device_id_to_device, filtered_constructs_by_id, construct_id_to_device_id, setting_results) ==
    IF setting_results = <<>> THEN Return(grouped)
    ELSE LET source_result == Head(setting_results)
             r == resolve_source(device_id_to_device, filtered_constructs_by_id,
                                 construct_id_to_device_id,
                                 source_result.setting_id, source_result.time)
         IN  IF ~r.ok THEN r
             ELSE settings_loop(
                      setting_results_loop(grouped, r.value.device, r.value.source,
                                           r.value.timestamp, source_result.results),
                      device_id_to_device, filtered_constructs_by_id,
                      construct_id_to_device_id, Tail(setting_results))

\* result is the defaultdict(list) of read: result[facility.short_name] comes
\* to exist when the first group is appended to it
result_append_groups(result, facility, grouped) ==
    IF grouped = <<>> THEN result
    ELSE DictPut(result, facility.short_name,
                 append_groups(IF DictHas(result, facility.short_name)
                               THEN DictGet(result, facility.short_name) ELSE <<>>,
                               grouped))

_process_historical_values(result, facility, queries, reading_results, setting_results) ==
    LET readings == readings_loop(<<>>, queries.device_id_to_device,
                                  queries.filtered_constructs_by_id,
                                  queries.construct_id_to_device_id, reading_results)
        settings == settings_loop(readings.value, queries.device_id_to_device,
                                  queries.filtered_constructs_by_id,
                                  queries.construct_id_to_device_id, setting_results)
    IN  IF ~readings.ok THEN readings
        ELSE IF ~settings.ok THEN settings
        ELSE Return(result_append_groups(result, facility, settings.value))

\* the order of Python's str on the device ids of the model
StrLess(a, b) ==
    LET rank == [x \in {"d1", "d2"} |-> IF x = "d1" THEN 1 ELSE 2]
    IN  rank[a] < rank[b]

\* aware datetimes compare by the instant they denote
Instant(dt) == dt.local - dt.utcoffset

\* x sorts before y under key (device_id, timestamp)
key_less(x, y) ==
    \/ StrLess(x.device_id, y.device_id)
    \/ x.device_id = y.device_id /\ Instant(x.timestamp) < Instant(y.timestamp)

\* a mutant of insert_sorted: the list is left in the order it was built
insert_at_end(sorted, x) == Append(sorted, x)

\* list.sort is stable: x goes behind every element it does not sort before
RECURSIVE insert_sorted(_, _)
insert_sorted(sorted, x) ==
    IF sorted = <<>> THEN <<x>>
    ELSE IF key_less(x, Head(sorted)) THEN <<x>> \o sorted
    ELSE <<Head(sorted)>> \o insert_sorted(Tail(sorted), x)

RECURSIVE sort_by_key(_, _)
sort_by_key(sorted, rest) ==
    IF rest = <<>> THEN sorted
    ELSE sort_by_key(insert_sorted(sorted, Head(rest)), Tail(rest))

DetailedMetricValue(facility_name, metric_values, value) ==
    [facility |-> facility_name,
     metric |-> metric_values.metric,
     device_name |-> metric_values.device_name,
     device_alias |-> metric_values.device_alias,
     device_kind |-> metric_values.metric.device_kind,
     device_id |-> metric_values.device_id,
     aggregation |-> metric_values.aggregation,
     timestamp |-> value.timestamp,
     value |-> value.value]

\* for metric_values in metric_values_list: for value in metric_values.values
RECURSIVE flatten_list(_, _)
flatten_list(facility_name, metric_values_list) ==
    IF metric_values_list = <<>> THEN <<>>
    ELSE [i \in DOMAIN Head(metric_values_list).values |->
             DetailedMetricValue(facility_name, Head(metric_values_list),
                                 Head(metric_values_list).values[i])]
         \o flatten_list(facility_name, Tail(metric_values_list))

\* for facility_name, metric_values_list in result.items()
RECURSIVE flatten_items(_)
flatten_items(result) ==
    IF result = <<>> THEN <<>>
    ELSE flatten_list(Head(result).key, Head(result).value) \o flatten_items(Tail(result))

_flatten_result(result) == sort_by_key(<<>>, flatten_items(result))

---------------------------------------------------------------------------
(* Each specification below runs one component; the others stay idle.      *)

MatchIdle ==
    /\ m_pc = "idle"
    /\ m_device = Device("d1", "compressor", <<>>)
    /\ m_metrics = <<>>
    /\ m_result = <<>>

FilterIdle ==
    /\ f_pc = "idle"
    /\ f_listing = Return(<<>>)
    /\ f_filter = <<>>
    /\ f_out = Return(<<>>)

\* no record is being consumed
NoRecord == <<>>

GroupIdle ==
    /\ g_pc = "idle"
    /\ g_reading_results = <<>>
    /\ g_setting_results = <<>>
    /\ g_cur = NoRecord
    /\ g_grouped = <<>>
    /\ g_result = <<>>
    /\ g_error = NoError

DecodeIdle ==
    /\ d_pc = "idle"
    /\ d_endpoint = "readings"
    /\ d_lines = <<>>
    /\ d_out = Return(<<>>)

NoArgs ==
    [filter |-> [facilities |-> <<>>, metrics |-> <<>>], start |-> <<>>, end |-> <<>>,
     interval |-> 60, aggregate_by |-> <<"avg">>, flatten |-> FALSE]

ReadIdle ==
    /\ r_pc = "idle"
    /\ r_args = NoArgs
    /\ r_requests = <<>>
    /\ r_response = Return(<<>>)
    /\ r_metrics_by_device_kind = [k \in DeviceKind |-> <<>>]
    /\ r_facilities = <<>>
    /\ r_i = 1
    /\ r_devices = <<>>
    /\ r_queries = NoQueries
    /\ r_reading_values = <<>>
    /\ r_setting_values = <<>>
    /\ r_result = <<>>
    /\ r_out = Return(<<>>)

---------------------------------------------------------------------------
(* The facility filter specification: the accessible facilities (or a      *)
(* failed listing) and a filter are drawn, then filter_facilities runs.    *)

\* short names of facilities the platform may list, and names a filter may hold
ShortNames == {"A", "B", "C"}
FilterNames == {"A", "B", "Z"}

\* the lists of accessible facilities: their short names are distinct
FacilityLists ==
    {[i \in DOMAIN ns |-> Facility(ns[i])] :
        ns \in {q \in SeqsUpTo(ShortNames, MaxFacilities) :
                   \A i, j \in DOMAIN q : i # j => q[i] # q[j]}}

FilterInit ==
    /\ f_pc = "start"
    /\ f_listing \in {Return(fs) : fs \in FacilityLists} \cup {Raise("AtlasHTTPError", {})}
    /\ f_filter \in SeqsUpTo(FilterNames, MaxFilter)
    /\ f_out = Return(<<>>)

FilterFacilities ==
    /\ f_pc = "start"
    /\ f_out' = filter_facilities(f_listing, f_filter)
    /\ f_pc' = "done"
    /\ UNCHANGED <<f_listing, f_filter>>
    /\ UNCHANGED notFilterVars

FilterNext == FilterFacilities

InitFilter == FilterInit /\ MatchIdle /\ GroupIdle /\ DecodeIdle /\ ReadIdle

SpecFilter == InitFilter /\ [][FilterNext]_vars

---------------------------------------------------------------------------
(* Properties of the facility filter *)

AccessibleNames == {f_listing.value[i].short_name : i \in DOMAIN f_listing.value}

\* C3: with an empty filter, filter_facilities returns all accessible
\* facilities; with a filter that holds a name that is not accessible, it
\* raises an error naming exactly the filter names that were not found.
C3_EmptyAllOrNamesMissing ==
    (f_pc = "done" /\ f_listing.ok)
        => /\ f_filter = <<>> => (f_out.ok /\ f_out.value = f_listing.value)
           /\ (\E i \in DOMAIN f_filter : f_filter[i] \notin AccessibleNames)
                 => /\ ~f_out.ok
                    /\ f_out.error.type = "Facilities not found"
                    /\ f_out.error.names = {n \in Range(f_filter) : n \notin AccessibleNames}

\* the filter [A, Z] has been applied where A is accessible and Z is not
C3_Witness ==
    /\ f_pc = "done" /\ f_listing.ok
    /\ f_filter = <<"A", "Z">>
    /\ "A" \in AccessibleNames
    /\ ~f_out.ok /\ f_out.error.names = {"Z"}

---------------------------------------------------------------------------
(* The grouping specification: _process_historical_values consumes the     *)
(* reading records, then the setting records, of one facility. The records *)
(* and their result entries are drawn as the loops reach them; what has    *)
(* been consumed is kept in g_reading_results and g_setting_results.       *)
(* read asks for scaled values (include_scaled=True), so a numberValue of  *)
(* a reading carries scaled; raw is optional.                              *)

\* the facility of a grouping run: one compressor with a control point and a setting
GroupDevice ==
    Device("d1", "compressor",
           <<Construct("c1", "SuctionPressure", "control_point"),
             Construct("s1", "Pressure", "setting")>>)
G_device_id_to_device == <<[key |-> "d1", value |-> GroupDevice]>>
G_filtered_constructs_by_id ==
    <<[key |-> "c1", value |-> Construct("c1", "SuctionPressure", "control_point")],
      [key |-> "s1", value |-> Construct("s1", "Pressure", "setting")]>>
G_construct_id_to_device_id ==
    <<[key |-> "c1", value |-> "d1"], [key |-> "s1", value |-> "d1"]>>

\* "2024-01-01T00:00:00Z" and "2024-01-01 00:01:00"
T1 == [local |-> 0, suffix |-> "Z"]
T2 == [local |-> 1, suffix |-> ""]
Times == {T1, T2}

Aggregations == {None, "avg", "min"}

\* ReadingResult: aggregation and numberValue (a ReadingNumberValue) are optional
ReadingResults ==
    {[aggregation |-> a, numberValue |-> nv] :
        a \in Aggregations, nv \in {<<>>, <<[raw |-> <<10>>, scaled |-> 5]>>}}

\* SettingResult: aggregation and numberValue (a float) are optional
SettingResults ==
    {[aggregation |-> a, numberValue |-> nv] : a \in Aggregations, nv \in {<<>>, <<0>>, <<7>>}}

\* source ids a record may carry: "cx" is matched by no construct
ReadingSourceIds == {"c1", "cx"}
SettingSourceIds == {"s1", "cx"}

RECURSIVE CountResults(_)
CountResults(records) ==
    IF records = <<>> THEN 0 ELSE Len(Head(records).results) + CountResults(Tail(records))

GroupRecords == Len(g_reading_results) + Len(g_setting_results)
GroupResults == CountResults(g_reading_results) + CountResults(g_setting_results)

\* records \o <<record>> with res appended to the results of the last record
WithResult(records, res) ==
    [records EXCEPT ![Len(records)].results = Append(@, res)]

GroupInit ==
    /\ g_pc = "readings"
    /\ g_reading_results = <<>>
    /\ g_setting_results = <<>>
    /\ g_cur = NoRecord
    /\ g_grouped = <<>>
    /\ g_result = <<>>
    /\ g_error = NoError

\* for source_result in reading_results: the lookups of the next record
ReadingRecord ==
    /\ g_pc = "readings"
    /\ GroupRecords < MaxRecords
    /\ \E time \in Times, source_id \in ReadingSourceIds :
          LET r == resolve_source(G_device_id_to_device, G_filtered_constructs_by_id,
                                  G_construct_id_to_device_id, source_id, time)
          IN  /\ g_reading_results' =
                    Append(g_reading_results,
                           [time |-> time, source_id |-> source_id, results |-> <<>>])
              /\ IF r.ok
                 THEN g_cur' = <<r.value>> /\ UNCHANGED <<g_pc, g_error>>
                 ELSE g_cur' = NoRecord /\ g_pc' = "error" /\ g_error' = r.error
    /\ UNCHANGED <<g_setting_results, g_grouped, g_result>>
    /\ UNCHANGED notGroupVars

\* for res in source_result.results: the next result entry of the record
ReadingResult ==
    /\ g_pc = "readings"
    /\ g_cur # NoRecord
    /\ GroupResults < MaxResults
    /\ \E res \in ReadingResults :
          /\ g_reading_results' = WithResult(g_reading_results, res)
          /\ g_grouped' = reading_result_step(g_grouped, g_cur[1].device, g_cur[1].source,
                                              g_cur[1].timestamp, res)
    /\ UNCHANGED <<g_pc, g_setting_results, g_cur, g_result, g_error>>
    /\ UNCHANGED notGroupVars

\* the readings loop ends
EndReadings ==
    /\ g_pc = "readings"
    /\ g_pc' = "settings"
    /\ g_cur' = NoRecord
    /\ UNCHANGED <<g_reading_results, g_setting_results, g_grouped, g_result, g_error>>
    /\ UNCHANGED notGroupVars

\* for source_result in setting_results: the lookups of the next record
SettingRecord ==
    /\ g_pc = "settings"
    /\ GroupRecords < MaxRecords
    /\ \E time \in Times, source_id \in SettingSourceIds :
          LET r == resolve_source(G_device_id_to_device, G_filtered_constructs_by_id,
                                  G_construct_id_to_device_id, source_id, time)
          IN  /\ g_setting_results' =
                    Append(g_setting_results,
                           [time |-> time, setting_id |-> source_id, results |-> <<>>])
              /\ IF r.ok
                 THEN g_cur' = <<r.value>> /\ UNCHANGED <<g_pc, g_error>>
                 ELSE g_cur' = NoRecord /\ g_pc' = "error" /\ g_error' = r.error
    /\ UNCHANGED <<g_reading_results, g_grouped, g_result>>
    /\ UNCHANGED notGroupVars

\* for res in source_result.results: the next result entry of the record
SettingResult ==
    /\ g_pc = "settings"
    /\ g_cur # NoRecord
    /\ GroupResults < MaxResults
    /\ \E res \in SettingResults :
          /\ g_setting_results' = WithResult(g_setting_results, res)
          /\ g_grouped' = setting_result_step(g_grouped, g_cur[1].device, g_cur[1].source,
                                              g_cur[1].timestamp, res)
    /\ UNCHANGED <<g_pc, g_reading_results, g_cur, g_result, g_error>>
    /\ UNCHANGED notGroupVars

\* the settings loop ends; the groups are appended to the facility's result
FinishGroups ==
    /\ g_pc = "settings"
    /\ g_result' = append_groups(g_result, g_grouped)
    /\ g_pc' = "done"
    /\ g_cur' = NoRecord
    /\ UNCHANGED <<g_reading_results, g_setting_results, g_grouped, g_error>>
    /\ UNCHANGED notGroupVars

GroupNext ==
    \/ ReadingRecord
    \/ ReadingResult
    \/ EndReadings
    \/ SettingRecord
    \/ SettingResult
    \/ FinishGroups

InitGroup == GroupInit /\ MatchIdle /\ FilterIdle /\ DecodeIdle /\ ReadIdle

SpecGroup == InitGroup /\ [][GroupNext]_vars

---------------------------------------------------------------------------
(* Properties of the grouping *)

\* the result entries of the records, in the order they are consumed, each
\* with the source id and the time of its record
RECURSIVE ReadingEntriesOf(_)
ReadingEntriesOf(records) ==
    IF records = <<>> THEN <<>>
    ELSE [i \in DOMAIN Head(records).results |->
            [path |-> "reading", source_id |-> Head(records).source_id,
             time |-> Head(records).time, res |-> Head(records).results[i]]]
         \o ReadingEntriesOf(Tail(records))

RECURSIVE SettingEntriesOf(_)
SettingEntriesOf(records) ==
    IF records = <<>> THEN <<>>
    ELSE [i \in DOMAIN Head(records).results |->
            [path |-> "setting", source_id |-> Head(records).setting_id,
             time |-> Head(records).time, res |-> Head(records).results[i]]]
         \o SettingEntriesOf(Tail(records))

\* readings in list order, then settings in list order
ConsumedEntries == ReadingEntriesOf(g_reading_results) \o SettingEntriesOf(g_setting_results)

\* the full key an entry is expected under: the device that owns the
\* construct, the construct, its kind, and the aggregation (avg when absent)
ExpectedKey(e) ==
    <<"d1", e.source_id,
      IF e.source_id = "s1" THEN "setting" ELSE "control_point",
      IF e.res.aggregation = None THEN "avg" ELSE e.res.aggregation>>

\* the instant the time string of a record spells (all are UTC)
ExpectedTimestamp(e) == [local |-> e.time.local, utcoffset |-> 0]

EntriesUnder(k) == SelectSeq(ConsumedEntries, LAMBDA e : ExpectedKey(e) = k)

ExpectedKeys == {ExpectedKey(ConsumedEntries[i]) : i \in DOMAIN ConsumedEntries}

\* the sample an entry that carries a value stands for
SampleOf(e) ==
    MetricValue(ExpectedTimestamp(e),
                IF e.res.numberValue = <<>> THEN NaN
                ELSE IF e.path = "reading" THEN Num(e.res.numberValue[1].scaled)
                ELSE Num(e.res.numberValue[1]))

\* C7, as claimed: entries whose aggregations differ land in different
\* groups, and the entries of one full key are all kept, one sample each, in
\* the order consumed (a setting entry without numberValue, which the grouping
\* is specified to leave out, aside).
C7_AsClaimed ==
    g_pc = "done"
        => \A k \in ExpectedKeys :
              /\ DictHas(g_grouped, k)
              /\ DictGet(g_grouped, k).values =
                    MapSeq(SampleOf,
                           SelectSeq(EntriesUnder(k),
                                     LAMBDA e : e.path = "reading" \/ e.res.numberValue # <<>>))

\* C21, as claimed: the samples of a group of a setting are one per result
\* entry of that key that carries a numberValue, the value 0 included, each
\* with the entry's value; the entries without numberValue add none.
C21_AsClaimed ==
    g_pc = "done"
        => \A k \in {ExpectedKey(e) : e \in Range(SettingEntriesOf(g_setting_results))} :
              /\ DictHas(g_grouped, k)
              /\ DictGet(g_grouped, k).values =
                    MapSeq(LAMBDA e : MetricValue(ExpectedTimestamp(e), Num(e.res.numberValue[1])),
                           SelectSeq(EntriesUnder(k),
                                     LAMBDA e : e.path = "setting" /\ e.res.numberValue # <<>>))

IsNaN(mv) == mv.value.nan

C9_MissingValueAsymmetry ==
    /\ \A k \in {ExpectedKey(e) : e \in Range(SettingEntriesOf(g_setting_results))} :
          /\ DictHas(g_grouped, k)
          /\ \A i \in DOMAIN DictGet(g_grouped, k).values :
                ~IsNaN(DictGet(g_grouped, k).values[i])
          /\ Len(DictGet(g_grouped, k).values) <=
                Len(SelectSeq(EntriesUnder(k), LAMBDA e : e.res.numberValue # <<>>))
    /\ \A k \in {ExpectedKey(e) : e \in Range(ReadingEntriesOf(g_reading_results))} :
          /\ DictHas(g_grouped, k)
          /\ SelectSeq(DictGet(g_grouped, k).values, IsNaN) =
                MapSeq(LAMBDA e : MetricValue(ExpectedTimestamp(e), NaN),
                       SelectSeq(EntriesUnder(k), LAMBDA e : e.res.numberValue = <<>>))

\* one run has consumed a reading entry and a setting entry, both without
\* numberValue: a NaN sample on one side, an empty group on the other
C9_Witness ==
    /\ g_pc = "done"
    /\ \E e \in Range(ReadingEntriesOf(g_reading_results)) :
          /\ e.res.numberValue = <<>>
          /\ DictGet(g_grouped, ExpectedKey(e)).values =
                <<MetricValue(ExpectedTimestamp(e), NaN)>>
    /\ \E e \in Range(SettingEntriesOf(g_setting_results)) :
          /\ e.res.numberValue = <<>>
          /\ DictGet(g_grouped, ExpectedKey(e)).values = <<>>
    /\ Len(g_result) = 2

---------------------------------------------------------------------------
(* The decoder specification: the lines of one streamed response are       *)
(* drawn, then the loop of the endpoint's client method decodes them.      *)

EmptyLine == [kind |-> "empty"]
TextLine == [kind |-> "text"]
JsonLine(obj) == [kind |-> "json", obj |-> obj]

\* {"time": .., "sourceId": "c1", "results": [{"aggregation": "avg",
\*  "numberValue": {"raw": 10, "scaled": 5}}]}, the same without "aggregation",
\* and an object that lacks "time"
ReadingLines ==
    {EmptyLine, TextLine,
     JsonLine([time |-> <<T1>>, sourceId |-> <<"c1">>,
               results |-> <<[aggregation |-> <<"avg">>,
                              numberValue |-> <<[raw |-> <<10>>, scaled |-> 5]>>]>>]),
     JsonLine([time |-> <<T2>>, sourceId |-> <<"c1">>,
               results |-> <<[aggregation |-> <<>>,
                              numberValue |-> <<[raw |-> <<>>, scaled |-> 5]>>]>>]),
     JsonLine([time |-> <<>>, sourceId |-> <<"c1">>, results |-> <<>>])}

SettingLines ==
    {EmptyLine, TextLine,
     JsonLine([time |-> <<T1>>, settingId |-> <<"s1">>,
               results |-> <<[aggregation |-> <<"avg">>, numberValue |-> <<7>>]>>]),
     JsonLine([time |-> <<T2>>, settingId |-> <<"s1">>,
               results |-> <<[aggregation |-> <<>>, numberValue |-> <<>>]>>]),
     JsonLine([time |-> <<>>, settingId |-> <<"s1">>, results |-> <<>>])}

DecodeInit ==
    /\ d_pc = "start"
    /\ \/ d_endpoint = "readings" /\ d_lines \in SeqsUpTo(ReadingLines, MaxLines)
       \/ d_endpoint = "settings" /\ d_lines \in SeqsUpTo(SettingLines, MaxLines)
    /\ d_out = Return(<<>>)

DecodeReadings ==
    /\ d_pc = "start" /\ d_endpoint = "readings"
    /\ d_out' = decode_reading_lines(d_lines, <<>>)
    /\ d_pc' = "done"
    /\ UNCHANGED <<d_endpoint, d_lines>>
    /\ UNCHANGED notDecodeVars

DecodeSettings ==
    /\ d_pc = "start" /\ d_endpoint = "settings"
    /\ d_out' = decode_setting_lines(d_lines, <<>>)
    /\ d_pc' = "done"
    /\ UNCHANGED <<d_endpoint, d_lines>>
    /\ UNCHANGED notDecodeVars

DecodeNext == DecodeReadings \/ DecodeSettings

InitDecode == DecodeInit /\ MatchIdle /\ FilterIdle /\ GroupIdle /\ ReadIdle

SpecDecode == InitDecode /\ [][DecodeNext]_vars

---------------------------------------------------------------------------
(* Properties of the decoder *)

\* a line that spells a record of the endpoint
WellFormed(line) ==
    /\ line.kind = "json"
    /\ line.obj.time # <<>>
    /\ \A i \in DOMAIN line.obj.results :
          line.obj.results[i].aggregation \in {<<>>} \cup {<<a>> : a \in AggregateBy}

\* the record a well-formed line spells
RecordOf(line) ==
    LET results == [i \in DOMAIN line.obj.results |->
                       [aggregation |-> IF line.obj.results[i].aggregation = <<>> THEN None
                                        ELSE line.obj.results[i].aggregation[1],
                        numberValue |-> line.obj.results[i].numberValue]]
    IN  IF d_endpoint = "readings"
        THEN [time |-> line.obj.time[1], source_id |-> line.obj.sourceId[1],
              results |-> results]
        ELSE [time |-> line.obj.time[1], setting_id |-> line.obj.settingId[1],
              results |-> results]

WellFormedRecords == MapSeq(RecordOf, SelectSeq(d_lines, WellFormed))

C23_AsClaimed ==
    (f_pc = "done" /\ f_listing.ok /\ f_filter # <<>>)
        => /\ Range(f_filter) \subseteq AccessibleNames
                  => /\ f_out.ok
                     /\ f_out.value = SelectSeq(f_listing.value,
                                                LAMBDA f : f.short_name \in Range(f_filter))
           /\ ~f_out.ok => \E i \in DOMAIN f_filter : f_filter[i] \notin AccessibleNames

---------------------------------------------------------------------------
(* The read specification: one call of MetricsReader.read, step by step.   *)
(* The arguments are drawn at the start; what the server answers to a      *)
(* request is drawn when the request is made.                              *)

\* metric specs: by name, by pattern, for a kind no device of the model has,
\* and three that is_valid_metric does not accept
SuctionPressureSpec == DeviceMetric("SuctionPressure", "", "compressor", "control_point")
SettingPatternSpec == DeviceMetric("", ".*Pressure", "compressor", "setting")
VesselSpec == DeviceMetric("Pressure", "", "vessel", "control_point")
UnknownNameSpec == DeviceMetric("Pressure", "", "compressor", "control_point")
EmptySpec == DeviceMetric("", "", "compressor", "control_point")
EnergyMeterSpec == DeviceMetric("Pressure", "", "energy meter", "control_point")

ReadMetricLists ==
    {<<>>, <<SuctionPressureSpec>>, <<SettingPatternSpec>>,
     <<SuctionPressureSpec, SettingPatternSpec>>, <<VesselSpec>>,
     <<UnknownNameSpec>>, <<SuctionPressureSpec, EmptySpec>>, <<EnergyMeterSpec>>,
     <<DeviceMetric("SuctionPressure", "Pres", "compressor", "control_point")>>}

ReadFacilityFilters == {<<>>, <<"A">>, <<"Z">>, <<"A", "A">>}

NaiveTime == <<[local |-> 10, tzinfo |-> <<>>]>>
UtcTime == <<[local |-> 10, tzinfo |-> <<0>>]>>
PlusOneTime == <<[local |-> 70, tzinfo |-> <<60>>]>>
LaterUtcTime == <<[local |-> 20, tzinfo |-> <<0>>]>>

\* <<start, end>>
ReadTimes ==
    {<<<<>>, <<>>>>, <<NaiveTime, <<>>>>, <<<<>>, NaiveTime>>, <<NaiveTime, NaiveTime>>,
     <<UtcTime, LaterUtcTime>>, <<PlusOneTime, LaterUtcTime>>}

ReadAggregateBy == {<<"avg">>, <<"median">>}

\* what GET facilities answers
FacilityListings ==
    {Raise("AtlasHTTPError", {}), Return(<<Facility("A")>>),
     Return(<<Facility("A"), Facility("B")>>)}

CompressorD1 ==
    Device("d1", "compressor",
           <<Construct("c1", "SuctionPressure", "control_point"),
             Construct("s1", "Pressure", "setting")>>)
CondenserD2 == Device("d2", "condenser", <<Construct("c2", "Pressure", "control_point")>>)
\* a second compressor: a control point of its own and one under the id of d1's
CompressorD2 ==
    Device("d2", "compressor",
           <<Construct("c2", "SuctionPressure", "control_point"),
             Construct("c1", "SuctionPressure", "control_point")>>)

\* what GET controlled-devices answers (the last: a setting without a name)
DeviceListings ==
    {Raise("AtlasHTTPError", {}), Return(<<>>), Return(<<CompressorD1>>),
     Return(<<CondenserD2, CompressorD1>>), Return(<<CompressorD2, CompressorD1>>),
     Return(<<Device("d1", "compressor", <<Construct("s1", "", "setting")>>)>>)}

ReadingLine(source_id, time, aggregation, numberValue) ==
    JsonLine([time |-> <<time>>, sourceId |-> <<source_id>>,
              results |-> <<[aggregation |-> aggregation, numberValue |-> numberValue]>>])
SettingLine(setting_id, time, aggregation, numberValue) ==
    JsonLine([time |-> <<time>>, settingId |-> <<setting_id>>,
              results |-> <<[aggregation |-> aggregation, numberValue |-> numberValue]>>])

ScaledFive == <<[raw |-> <<10>>, scaled |-> 5]>>

\* what POST readings/queries answers
ReadingResponses ==
    {Raise("AtlasHTTPError", {}),
     Return(<<>>),
     Return(<<ReadingLine("c1", T1, <<"avg">>, ScaledFive)>>),
     Return(<<ReadingLine("c1", T2, <<>>, <<>>), EmptyLine,
              ReadingLine("c1", T1, <<"avg">>, ScaledFive)>>),
     Return(<<TextLine>>),
     Return(<<ReadingLine("cx", T1, <<"avg">>, ScaledFive)>>),
     Return(<<ReadingLine("c2", T2, <<"avg">>, ScaledFive),
              ReadingLine("c1", T1, <<"min">>, ScaledFive)>>)}

\* what POST settings/queries answers
SettingResponses ==
    {Raise("AtlasHTTPError", {}),
     Return(<<SettingLine("s1", T1, <<"avg">>, <<7>>)>>),
     Return(<<SettingLine("s1", T2, <<>>, <<0>>), SettingLine("s1", T1, <<"avg">>, <<7>>)>>),
     Return(<<SettingLine("s1", T1, <<>>, <<>>)>>),
     Return(<<SettingLine("sx", T1, <<"avg">>, <<7>>)>>)}

ReadInit ==
    /\ r_pc = "start"
    /\ \E metrics \in ReadMetricLists, facilities \in ReadFacilityFilters,
          times \in ReadTimes, aggregate_by \in ReadAggregateBy, flatten \in BOOLEAN :
          r_args = [filter |-> [facilities |-> facilities, metrics |-> metrics],
                    start |-> times[1], end |-> times[2], interval |-> 60,
                    aggregate_by |-> aggregate_by, flatten |-> flatten]
    /\ r_requests = <<>>
    /\ r_response = Return(<<>>)
    /\ r_metrics_by_device_kind = [k \in DeviceKind |-> <<>>]
    /\ r_facilities = <<>>
    /\ r_i = 1
    /\ r_devices = <<>>
    /\ r_queries = NoQueries
    /\ r_reading_values = <<>>
    /\ r_setting_values = <<>>
    /\ r_result = <<>>
    /\ r_out = Return(<<>>)

\* a mutant of Fail: the error is noted and the call does not end
FailSilently(raised) ==
    /\ r_pc' = r_pc
    /\ r_out' = raised

\* read raises: nothing after the raise runs
Fail(raised) ==
    /\ r_pc' = "done"
    /\ r_out' = raised

\* if not filter.metrics: raise ...; for metric in filter.metrics: ...
ValidateMetrics ==
    /\ r_pc = "start"
    /\ LET validated == validate_metrics(r_args.filter.metrics)
       IN  IF validated.ok
           THEN /\ r_metrics_by_device_kind' = validated.value
                /\ r_pc' = "facilities"
                /\ UNCHANGED r_out
           ELSE Fail(validated) /\ UNCHANGED r_metrics_by_device_kind
    /\ UNCHANGED <<r_args, r_requests, r_response, r_facilities, r_i, r_devices, r_queries,
                   r_reading_values, r_setting_values, r_result>>
    /\ UNCHANGED notReadVars

\* facilities = self.client.filter_facilities(filter.facilities)
ResolveFacilities ==
    /\ r_pc = "facilities"
    /\ \E listing \in FacilityListings :
          LET filtered == filter_facilities(listing, r_args.filter.facilities)
          IN  /\ r_requests' = Append(r_requests,
                                      [op |-> "GET facilities", facility |-> None,
                                       payload |-> <<>>])
              /\ r_response' = listing
              /\ IF filtered.ok
                 THEN /\ r_facilities' = filtered.value
                      /\ r_pc' = IF filtered.value = <<>> THEN "return" ELSE "devices"
                      /\ UNCHANGED r_out
                 ELSE Fail(filtered) /\ UNCHANGED r_facilities
    /\ UNCHANGED <<r_args, r_metrics_by_device_kind, r_i, r_devices, r_queries,
                   r_reading_values, r_setting_values, r_result>>
    /\ UNCHANGED notReadVars

\* devices = self._get_devices(facility, agent_id), then the empty dicts and
\* lists of the facility
GetDevices ==
    /\ r_pc = "devices"
    /\ \E listing \in DeviceListings :
          LET facility == r_facilities[r_i]
          IN  /\ r_requests' = Append(r_requests,
                                      Request("GET controlled-devices", facility, <<>>))
              /\ r_response' = listing
              /\ IF listing.ok
                 THEN /\ r_devices' = listing.value
                      /\ r_pc' = "queries"
                      /\ UNCHANGED r_out
                 ELSE /\ Fail(RaiseFrom("Error listing devices", {facility.display_name},
                                        listing.error))
                      /\ UNCHANGED r_devices
    /\ r_queries' = NoQueries
    /\ r_reading_values' = <<>>
    /\ r_setting_values' = <<>>
    /\ UNCHANGED <<r_args, r_metrics_by_device_kind, r_facilities, r_i, r_result>>
    /\ UNCHANGED notReadVars

\* for device in devices: the matching constructs and their queries
BuildQueries ==
    /\ r_pc = "queries"
    /\ LET built == build_queries(NoQueries, r_devices, r_metrics_by_device_kind,
                                  r_args.aggregate_by)
       IN  IF built.ok
           THEN r_queries' = built.value /\ r_pc' = "readings" /\ UNCHANGED r_out
           ELSE Fail(built) /\ UNCHANGED r_queries
    /\ UNCHANGED <<r_args, r_requests, r_response, r_metrics_by_device_kind, r_facilities, r_i,
                   r_devices, r_reading_values, r_setting_values, r_result>>
    /\ UNCHANGED notReadVars

\* a mutant of GetReadings: the reading values are asked for whether or not a
\* reading query was built
GetReadingsUnguarded ==
    /\ r_pc = "readings"
    /\ \E response \in ReadingResponses :
          LET facility == r_facilities[r_i]
              called == wrap_historical_error(
                            get_historical_reading_values(
                                facility, r_args.start, r_args.end,
                                r_queries.reading_queries, r_args.interval, response),
                            facility)
          IN  /\ r_requests' = r_requests \o called.requests
              /\ r_response' = IF called.requests = <<>> THEN r_response ELSE response
              /\ IF called.out.ok
                 THEN /\ r_reading_values' = called.out.value
                      /\ r_pc' = "settings"
                      /\ UNCHANGED r_out
                 ELSE Fail(called.out) /\ UNCHANGED r_reading_values
    /\ UNCHANGED <<r_args, r_metrics_by_device_kind, r_facilities, r_i, r_devices,
                   r_queries, r_setting_values, r_result>>
    /\ UNCHANGED notReadVars

\* if len(reading_queries) > 0: reading_values = self._get_historical_reading_values(...)
GetReadings ==
    /\ r_pc = "readings"
    /\ \/ /\ r_queries.reading_queries = <<>>
          /\ r_pc' = "settings"
          /\ UNCHANGED <<r_requests, r_response, r_reading_values, r_out>>
       \/ /\ r_queries.reading_queries # <<>>
          /\ \E response \in ReadingResponses :
                LET facility == r_facilities[r_i]
                    called == wrap_historical_error(
                                  get_historical_reading_values(
                                      facility, r_args.start, r_args.end,
                                      r_queries.reading_queries, r_args.interval, response),
                                  facility)
                IN  /\ r_requests' = r_requests \o called.requests
                    /\ r_response' = IF called.requests = <<>> THEN r_response ELSE response
                    /\ IF called.out.ok
                       THEN /\ r_reading_values' = called.out.value
                            /\ r_pc' = "settings"
                            /\ UNCHANGED r_out
                       ELSE Fail(called.out) /\ UNCHANGED r_reading_values
    /\ UNCHANGED <<r_args, r_metrics_by_device_kind, r_facilities, r_i, r_devices,
                   r_queries, r_setting_values, r_result>>
    /\ UNCHANGED notReadVars

\* if len(setting_queries) > 0: setting_values = self._get_historical_setting_values(...)
GetSettings ==
    /\ r_pc = "settings"
    /\ \/ /\ r_queries.setting_queries = <<>>
          /\ r_pc' = "process"
          /\ UNCHANGED <<r_requests, r_response, r_setting_values, r_out>>
       \/ /\ r_queries.setting_queries # <<>>
          /\ \E response \in SettingResponses :
                LET facility == r_facilities[r_i]
                    called == wrap_historical_error(
                                  get_historical_setting_values(
                                      facility, r_args.start, r_args.end,
                                      r_queries.setting_queries, r_args.interval, response),
                                  facility)
                IN  /\ r_requests' = r_requests \o called.requests
                    /\ r_response' = IF called.requests = <<>> THEN r_response ELSE response
                    /\ IF called.out.ok
                       THEN /\ r_setting_values' = called.out.value
                            /\ r_pc' = "process"
                            /\ UNCHANGED r_out
                       ELSE Fail(called.out) /\ UNCHANGED r_setting_values
    /\ UNCHANGED <<r_args, r_metrics_by_device_kind, r_facilities, r_i, r_devices,
                   r_queries, r_reading_values, r_result>>
    /\ UNCHANGED notReadVars

\* a mutant of ProcessValues: the loop does not move on to the next facility
ProcessValuesStay ==
    /\ r_pc = "process"
    /\ LET processed == _process_historical_values(r_result, r_facilities[r_i], r_queries,
                                                   r_reading_values, r_setting_values)
       IN  IF processed.ok
           THEN /\ r_result' = processed.value
                /\ r_pc' = IF r_i < Len(r_facilities) THEN "devices" ELSE "return"
                /\ UNCHANGED <<r_out, r_i>>
           ELSE Fail(processed) /\ UNCHANGED <<r_result, r_i>>
    /\ UNCHANGED <<r_args, r_requests, r_response, r_metrics_by_device_kind, r_facilities, r_devices,
                   r_queries, r_reading_values, r_setting_values>>
    /\ UNCHANGED notReadVars

\* self._process_historical_values(...), then the next facility
ProcessValues ==
    /\ r_pc = "process"
    /\ LET processed == _process_historical_values(r_result, r_facilities[r_i], r_queries,
                                                   r_reading_values, r_setting_values)
       IN  IF processed.ok
           THEN /\ r_result' = processed.value
                /\ r_i' = r_i + 1
                /\ r_pc' = IF r_i < Len(r_facilities) THEN "devices" ELSE "return"
                /\ UNCHANGED r_out
           ELSE Fail(processed) /\ UNCHANGED <<r_result, r_i>>
    /\ UNCHANGED <<r_args, r_requests, r_response, r_metrics_by_device_kind, r_facilities, r_devices,
                   r_queries, r_reading_values, r_setting_values>>
    /\ UNCHANGED notReadVars

\* if flatten: return self._flatten_result(result); return result
ReturnResult ==
    /\ r_pc = "return"
    /\ r_out' = Return(IF r_args.flatten THEN _flatten_result(r_result) ELSE r_result)
    /\ r_pc' = "done"
    /\ UNCHANGED <<r_args, r_requests, r_response, r_metrics_by_device_kind, r_facilities, r_i,
                   r_devices, r_queries, r_reading_values, r_setting_values, r_result>>
    /\ UNCHANGED notReadVars

Init == ReadInit /\ MatchIdle /\ FilterIdle /\ GroupIdle /\ DecodeIdle

Next ==
    \/ ValidateMetrics
    \/ ResolveFacilities
    \/ GetDevices
    \/ BuildQueries
    \/ GetReadings
    \/ GetSettings
    \/ ProcessValues
    \/ ReturnResult

Spec == Init /\ [][Next]_vars

\* the positions of read: before validation, before each call of the loop
\* body, before the return, and after the call has ended
Positions ==
    {"start", "facilities", "devices", "queries", "readings", "settings", "process",
     "return", "done"}

\* the thread of read moves on from the position it is at
Running == r_pc # "done" /\ r_pc' \in Positions \ {r_pc}

\* read is one thread of blocking calls over finite lists and responses: a
\* call that has not ended does not stay at one position forever
FairSpec == Spec /\ WF_r_pc(Running)

---------------------------------------------------------------------------
(* Properties of read *)

\* a spec that is_valid_metric is false for: a name that no metric of the
\* device kind has, or neither a name nor a pattern
NotValid(metric) ==
    \/ /\ metric.name # ""
       /\ \/ metric.device_kind = "compressor"
             /\ metric.name \notin {"DischargePressure", "DischargeTemperature",
                                    "SuctionPressure", "SuctionTemperature"}
          \/ metric.device_kind = "condenser"
             /\ metric.name \notin {"DischargePressure", "DischargeTemperature"}
          \/ metric.device_kind = "evaporator"
             /\ metric.name \notin {"SupplyTemperature", "ReturnTemperature"}
          \/ metric.device_kind = "vessel" /\ metric.name # "Pressure"
    \/ metric.name = "" /\ metric.alias_regex = ""

\* C1: when the metrics list is empty or holds a spec for which
\* is_valid_metric is false, read issues no transport request and ends in an
\* error.
C1_InvalidMetricsFailBeforeTransport ==
    (\/ r_args.filter.metrics = <<>>
     \/ \E i \in DOMAIN r_args.filter.metrics : NotValid(r_args.filter.metrics[i]))
        => /\ r_requests = <<>>
           /\ r_pc \in {"idle", "start", "done"}
           /\ r_pc = "done" => ~r_out.ok

\* read has failed on a list whose first spec is valid and whose second is not
C1_Witness ==
    /\ r_pc = "done"
    /\ Len(r_args.filter.metrics) = 2
    /\ ~NotValid(r_args.filter.metrics[1])
    /\ NotValid(r_args.filter.metrics[2])
    /\ ~r_out.ok
    /\ r_requests = <<>>

\* a decoded record of the facility read is at names a source id that the
\* facility's matched-construct map does not hold
UnknownReading ==
    \E i \in DOMAIN r_reading_values :
        ~DictHas(r_queries.filtered_constructs_by_id, r_reading_values[i].source_id)
UnknownSetting ==
    \E i \in DOMAIN r_setting_values :
        ~DictHas(r_queries.filtered_constructs_by_id, r_setting_values[i].setting_id)

\* C11: once a streamed reading or setting record names a source id that is
\* not in the facility's matched-construct map, read never gets past the
\* processing of that facility: it ends in an error and returns no result.
C11_UnknownSourceFails ==
    (UnknownReading \/ UnknownSetting)
        => /\ r_pc \in {"settings", "process", "done"}
           /\ r_pc = "done" => (~r_out.ok /\ r_out.value = <<>>)

\* read has ended in the KeyError of a reading record with an unknown source id
C11_Witness ==
    /\ r_pc = "done"
    /\ UnknownReading
    /\ ~UnknownSetting
    /\ r_out.error.type = "KeyError"

\* the last request was one for a facility and the transport failed it
FacilityRequestFailed ==
    /\ r_requests # <<>>
    /\ r_requests[Len(r_requests)].op # "GET facilities"
    /\ ~r_response.ok

\* read raised the error of a failed device listing or historical query
FacilityError ==
    r_out.error.type \in {"Error listing devices", "Error retrieving historical values"}

\* C12: when the device listing or a historical query of a facility fails,
\* read ends in an error that names that facility's display name, returns no
\* result (whatever earlier facilities gave), and has issued no request for a
\* later facility.
C12_FacilityFailureAborts ==
    (FacilityRequestFailed \/ FacilityError)
        => /\ r_pc = "done"
           /\ ~r_out.ok
           /\ r_out.value = <<>>
           /\ FacilityError
           /\ r_out.error.names = {r_facilities[r_i].display_name}
           /\ \A k \in DOMAIN r_requests :
                 \/ r_requests[k].op = "GET facilities"
                 \/ \E j \in 1..r_i : r_requests[k].facility = r_facilities[j].short_name

\* the setting query of the second facility failed after the first facility
\* had given results
C12_Witness ==
    /\ r_pc = "done"
    /\ r_i = 2
    /\ r_result # <<>>
    /\ FacilityRequestFailed
    /\ r_requests[Len(r_requests)].op = "POST settings/queries"
    /\ r_out.error.names = {"Plant B"}

\* the samples of the nested result: <<k, i, j>> is value j of group i of the
\* k-th facility
NestedSamples ==
    {t \in (DOMAIN r_result) \X (1..8) \X (1..8) :
        /\ t[2] \in DOMAIN r_result[t[1]].value
        /\ t[3] \in DOMAIN r_result[t[1]].value[t[2]].values}

NestedEntry(t) ==
    DetailedMetricValue(r_result[t[1]].key, r_result[t[1]].value[t[2]],
                        r_result[t[1]].value[t[2]].values[t[3]])

\* x is not behind y in the order of (device_id, timestamp)
NotAfter(x, y) ==
    \/ StrLess(x.device_id, y.device_id)
    \/ /\ x.device_id = y.device_id
       /\ x.timestamp.local - x.timestamp.utcoffset <= y.timestamp.local - y.timestamp.utcoffset

\* C13: with flatten=true read returns a sequence that is sorted
\* non-decreasingly by (device_id, timestamp) and holds each sample of the
\* nested result exactly once (as many equal entries as the nested result has
\* equal samples); a group without samples contributes nothing.
C13_FlattenSortedPermutation ==
    (r_pc = "done" /\ r_out.ok /\ r_args.flatten)
        => /\ \A i, j \in DOMAIN r_out.value : i < j => NotAfter(r_out.value[i], r_out.value[j])
           /\ Len(r_out.value) = Cardinality(NestedSamples)
           /\ \A t \in NestedSamples :
                 Cardinality({n \in DOMAIN r_out.value : r_out.value[n] = NestedEntry(t)})
                     = Cardinality({u \in NestedSamples : NestedEntry(u) = NestedEntry(t)})

\* a flattened result of two devices whose samples the sort had to reorder,
\* from a nested result that holds a group without samples
C13_Witness ==
    /\ r_pc = "done" /\ r_out.ok /\ r_args.flatten
    /\ {r_out.value[n].device_id : n \in DOMAIN r_out.value} = {"d1", "d2"}
    /\ r_out.value # flatten_items(r_result)
    /\ \E k \in DOMAIN r_result : \E i \in DOMAIN r_result[k].value :
          r_result[k].value[i].values = <<>>

\* the metric names a device kind knows; an energy meter knows none
Vocabulary(device_kind) ==
    CASE device_kind = "compressor" ->
             {"DischargePressure", "DischargeTemperature",
              "SuctionPressure", "SuctionTemperature"}
      [] device_kind = "condenser" -> {"DischargePressure", "DischargeTemperature"}
      [] device_kind = "evaporator" -> {"SupplyTemperature", "ReturnTemperature"}
      [] device_kind = "vessel" -> {"Pressure"}
      [] device_kind = "energy meter" -> {}

\* C14, as claimed: for every spec read has validated, of whatever device
\* kind, is_valid_metric returns a boolean without raising: false for a name
\* outside the kind's vocabulary, false for no name and an empty alias_regex,
\* true otherwise.
C14_AsClaimed ==
    r_pc \notin {"idle", "start"}
        => \A i \in DOMAIN r_args.filter.metrics :
              LET metric == r_args.filter.metrics[i]
                  valid == is_valid_metric(metric)
              IN  /\ valid.ok
                  /\ valid.value = IF metric.name # ""
                                   THEN metric.name \in Vocabulary(metric.device_kind)
                                   ELSE metric.alias_regex # ""

\* C15, as claimed: every spec the matcher is given for a device has exactly
\* one of name and alias_regex set to a non-empty value.
C15_AsClaimed ==
    r_pc = "readings"
        => \A d \in DOMAIN r_devices :
              \A i \in DOMAIN r_metrics_by_device_kind[r_devices[d].kind] :
                  LET metric == r_metrics_by_device_kind[r_devices[d].kind][i]
                  IN  (metric.name # "") # (metric.alias_regex # "")

\* the place in the facility loop of the facility request k is for
FacilityIndex(k) ==
    CHOOSE j \in DOMAIN r_facilities : r_facilities[j].short_name = r_requests[k].facility

\* device listing, then reading query, then setting query
OpRank(k) ==
    CASE r_requests[k].op = "GET controlled-devices" -> 1
      [] r_requests[k].op = "POST readings/queries" -> 2
      [] r_requests[k].op = "POST settings/queries" -> 3

RequestsOrdered ==
    /\ r_pc \in {"idle", "start"} => r_requests = <<>>
    /\ r_requests # <<>> => r_requests[1].op = "GET facilities"
    /\ \A k \in 2..Len(r_requests) :
          /\ r_requests[k].op # "GET facilities"
          /\ \E j \in 1..r_i : j \in DOMAIN r_facilities
                                /\ r_facilities[j].short_name = r_requests[k].facility
          /\ OpRank(k) > 1 =>
                \E l \in 2..(k - 1) : /\ OpRank(l) = 1
                                      /\ r_requests[l].facility = r_requests[k].facility
    /\ \A k, l \in 2..Len(r_requests) :
          k < l => \/ FacilityIndex(k) < FacilityIndex(l)
                   \/ FacilityIndex(k) = FacilityIndex(l) /\ OpRank(k) < OpRank(l)

\* C16: the transport requests of a read are strictly ordered: the facility
\* listing is the first request, made once and after validation; the
\* requests for the facilities follow in the order of the facility list, for
\* each facility the device listing, then the reading query, then the setting
\* query, each at most once; a request is only ever for a facility the loop
\* has reached, and the loop moves to the next facility only by the step that
\* groups and merges the values of the current one.
C16_RequestsStrictlyOrdered ==
    /\ []RequestsOrdered
    /\ [][r_i' # r_i => (r_pc = "process" /\ r_i' = r_i + 1 /\ r_requests' = r_requests)]_vars

\* a read of two facilities that made all seven requests
C16_Witness ==
    /\ r_pc = "done" /\ r_out.ok
    /\ Len(r_requests) = 7
    /\ r_requests[4].op = "POST settings/queries" /\ r_requests[4].facility = "A"
    /\ r_requests[5].op = "GET controlled-devices" /\ r_requests[5].facility = "B"

\* the construct ids the reading queries and the setting queries ask for
ReadingQueryIds ==
    {r_queries.reading_queries[i].source_id : i \in DOMAIN r_queries.reading_queries}
SettingQueryIds ==
    {r_queries.setting_queries[i].source.setting_id : i \in DOMAIN r_queries.setting_queries}

DecodedAsSent(records, lines) ==
    LET sent == SelectSeq(lines, LAMBDA l : l.kind = "json")
    IN  /\ Len(records) = Len(sent)
        /\ \A k \in DOMAIN sent :
               /\ Len(records[k].results) = Len(sent[k].obj.results)
               /\ \A j \in DOMAIN sent[k].obj.results :
                      records[k].results[j].aggregation = None
                          <=> sent[k].obj.results[j].aggregation = <<>>

\* the groups read has appended for the facility it processed last
LastGroups ==
    LET short_name == r_facilities[r_i - 1].short_name
    IN  IF DictHas(r_result, short_name) THEN DictGet(r_result, short_name) ELSE <<>>

\* group g of the facility processed last is the avg group of construct id and
\* holds a sample at the time of every entry of records (the decoded records
\* of construct id) that has no aggregation or aggregation avg and passes keep
InAvgGroup(g, id, records, keep(_)) ==
    /\ g.device_id = DictGet(r_queries.construct_id_to_device_id, id)
    /\ g.metric.name = DictGet(r_queries.filtered_constructs_by_id, id).alias
    /\ g.metric.metric_type = DictGet(r_queries.filtered_constructs_by_id, id).metric_type
    /\ g.aggregation = "avg"
    /\ \A k \in DOMAIN records : \A j \in DOMAIN records[k].results :
           (records[k].results[j].aggregation \in {None, "avg"} /\ keep(records[k].results[j]))
               => \E v \in DOMAIN g.values : g.values[v].timestamp = parse_dt(records[k].time)

\* some entry of records has no aggregation
HasBareEntry(records) ==
    \E k \in DOMAIN records : \E j \in DOMAIN records[k].results :
        records[k].results[j].aggregation = None

\* C19: a result entry whose line carries no aggregation is decoded with
\* aggregation absent, for readings and for settings; when the facility has
\* been grouped, no group has an absent aggregation, and the entries of a
\* construct without aggregation are in its group of aggregation avg, the one
\* group that also holds the construct's entries of explicit aggregation avg
\* (a setting entry only where it contributes a sample).
C19_BareAggregationGroupsAsAvg ==
    /\ (r_pc = "settings" /\ r_queries.reading_queries # <<>>)
           => DecodedAsSent(r_reading_values, r_response.value)
    /\ (r_pc = "process" /\ r_queries.setting_queries # <<>>)
           => DecodedAsSent(r_setting_values, r_response.value)
    /\ (r_pc \in {"devices", "return"} /\ r_i > 1)
           => /\ \A k \in DOMAIN r_result : \A i \in DOMAIN r_result[k].value :
                     r_result[k].value[i].aggregation \in AggregateBy
              /\ \A id \in {r_reading_values[k].source_id : k \in DOMAIN r_reading_values} :
                     LET records == SelectSeq(r_reading_values, LAMBDA r : r.source_id = id)
                     IN  HasBareEntry(records)
                             => \E i \in DOMAIN LastGroups :
                                    InAvgGroup(LastGroups[i], id, records, LAMBDA res : TRUE)
              /\ \A id \in {r_setting_values[k].setting_id : k \in DOMAIN r_setting_values} :
                     LET records == SelectSeq(r_setting_values, LAMBDA r : r.setting_id = id)
                     IN  HasBareEntry(records)
                             => \E i \in DOMAIN LastGroups :
                                    InAvgGroup(LastGroups[i], id, records,
                                               LAMBDA res : res.numberValue \notin {<<>>, <<0>>})

\* a facility has been grouped whose readings held an entry without
\* aggregation and an entry with aggregation avg for the same control point:
\* one avg group holds both samples
C19_Witness ==
    /\ r_pc \in {"devices", "return"}
    /\ r_i > 1
    /\ \E k, l \in DOMAIN r_reading_values :
           /\ r_reading_values[k].source_id = r_reading_values[l].source_id
           /\ r_reading_values[k].results[1].aggregation = None
           /\ r_reading_values[l].results[1].aggregation = "avg"
    /\ \E i \in DOMAIN LastGroups :
           LastGroups[i].aggregation = "avg" /\ Len(LastGroups[i].values) >= 2

\* C20: every call of read ends: it comes to return a result or to raise an
\* error, never both and never neither, and takes no step after that.
C20_ReadTerminates ==
    /\ <>(r_pc = "done")
    /\ [](r_pc = "done" => (r_out.ok <=> r_out.error.type = "None"))
    /\ [](r_pc # "done" => (r_out.ok /\ r_out.error.type = "None"))
    /\ [](r_pc \in Positions)
    /\ [](r_pc \in {"devices", "queries", "readings", "settings", "process"}
              => r_i \in DOMAIN r_facilities)
    /\ [][r_pc # "done" /\ r_pc' # r_pc]_vars

\* a read over two facilities has returned the groups of both
C20_Witness ==
    /\ r_pc = "done"
    /\ r_out.ok
    /\ Len(r_facilities) = 2
    /\ r_i = 3
    /\ Len(r_result) = 2
    /\ Len(r_requests) >= 5

\* C17, as claimed: once the queries of a facility are built, the reading and
\* setting query lists together hold exactly one query per distinct matched
\* construct id.
C17_AsClaimed ==
    r_pc = "readings"
        => Len(r_queries.reading_queries) + Len(r_queries.setting_queries)
               = Cardinality(DictKeys(r_queries.filtered_constructs_by_id))

\* the wire timestamp sent for the aware datetime t, read as UTC, denotes the
\* instant of t
SameInstant(sent, t) ==
    sent.suffix = "Z" /\ sent.local = t[1].local - t[1].tzinfo[1]

\* C22, as claimed: in every historical request, the start and the end written
\* into the payload for a timezone-aware argument denote, as UTC, the instant
\* of that argument, whatever its offset.
C22_AsClaimed ==
    \A i \in DOMAIN r_requests :
        r_requests[i].payload # <<>>
            => /\ (r_args.start # <<>> /\ r_args.start[1].tzinfo # <<>>)
                      => SameInstant(r_requests[i].payload[1].start, r_args.start)
               /\ (r_args.end # <<>> /\ r_args.end[1].tzinfo # <<>>)
                      => SameInstant(r_requests[i].payload[1].end, r_args.end)

\* the spec selects the construct: they are of one kind, and the construct's
\* alias is the spec's name or is matched at position 0 by the spec's pattern
\* (an empty name or pattern is one that is not set)
Selects(spec, construct) ==
    /\ spec.metric_type = construct.metric_type
    /\ \/ spec.name # "" /\ construct.alias = spec.name
       \/ spec.alias_regex # "" /\ re_match(re_compile(spec.alias_regex), construct.alias)

\* C24, as claimed: when read has succeeded, every group of the facility
\* processed last names a device of that facility and a construct that the
\* device owns and that a requested spec of the device's kind and of the
\* construct's kind selects.
C24_AsClaimed ==
    (r_pc = "done" /\ r_out.ok /\ r_i > 1)
        => \A i \in DOMAIN LastGroups :
              \E d \in DOMAIN r_devices, m \in DOMAIN r_args.filter.metrics :
                 LET device == r_devices[d]
                     spec == r_args.filter.metrics[m]
                     g == LastGroups[i]
                 IN  /\ g.device_id = device.id
                     /\ g.metric.device_kind = device.kind
                     /\ spec.device_kind = device.kind
                     /\ g.metric.metric_type = spec.metric_type
                     /\ \E c \in DOMAIN DeviceConstructs(device, spec.metric_type) :
                            /\ DeviceConstructs(device, spec.metric_type)[c].alias = g.metric.name
                            /\ Selects(spec, DeviceConstructs(device, spec.metric_type)[c])

\* C25, as claimed: a read whose aggregate_by names something that is no
\* aggregation method ends in an error, whatever the devices hold.
C25_AsClaimed ==
    (r_pc = "done" /\ \E i \in DOMAIN r_args.aggregate_by :
                          r_args.aggregate_by[i] \notin {"avg", "min", "max", "first", "last"})
        => ~r_out.ok

Naive(t) == t # <<>> /\ t[1].tzinfo = <<>>

\* the request log holds a request op for the k-th facility read works on
Requested(op, k) ==
    \E i \in DOMAIN r_requests :
        r_requests[i].op = op /\ r_requests[i].facility = r_facilities[k].short_name

\* the facility the queries in r_queries were built for, once read has ended:
\* the last one after a return, the one at hand after a raise
QueriedFacility == IF r_out.ok THEN r_i - 1 ELSE r_i

\* C26, as claimed: when read has ended, a reading request was issued for the
\* facility it worked on last exactly if a reading query was built for it, and
\* a setting request exactly if a setting query was built for it.
C26_AsClaimed ==
    (r_pc = "done" /\ QueriedFacility \in DOMAIN r_facilities)
        => /\ Requested("POST readings/queries", QueriedFacility)
                  <=> r_queries.reading_queries # <<>>
           /\ Requested("POST settings/queries", QueriedFacility)
                  <=> r_queries.setting_queries # <<>>

\* C26, amended: a historical request is issued for a facility only if a query
\* of its kind was built for it and never with an empty query list, and once
\* read has gone past the reading (setting) call of a facility the request was
\* issued exactly if a reading (setting) query was built; read never fails
\* with the client's error about an empty query list (a ValueError from the
\* client is the one about a naive start or end); a facility that read has
\* finished and that has no matched construct got no historical request and
\* has no entry in the result.
C26_RequestsFollowQueries ==
    /\ \A i \in DOMAIN r_requests :
           r_requests[i].payload # <<>> => r_requests[i].payload[1].queries # <<>>
    /\ (r_pc \in {"readings", "settings", "process"} \/ (r_pc = "done" /\ ~r_out.ok))
           => (r_i \in DOMAIN r_facilities
                  => /\ Requested("POST readings/queries", r_i)
                            => r_queries.reading_queries # <<>>
                     /\ Requested("POST settings/queries", r_i)
                            => r_queries.setting_queries # <<>>)
    /\ r_pc \in {"settings", "process"}
           => (Requested("POST readings/queries", r_i) <=> r_queries.reading_queries # <<>>)
    /\ r_pc = "process"
           => (Requested("POST settings/queries", r_i) <=> r_queries.setting_queries # <<>>)
    /\ (r_pc = "done" /\ ~r_out.ok /\ r_out.error.type = "Error retrieving historical values"
            /\ r_out.error.cause = "ValueError")
           => (Naive(r_args.start) \/ Naive(r_args.end))
    /\ (r_pc \in {"devices", "return"} /\ r_i > 1)
           => /\ Requested("POST readings/queries", r_i - 1)
                     <=> r_queries.reading_queries # <<>>
              /\ Requested("POST settings/queries", r_i - 1)
                     <=> r_queries.setting_queries # <<>>
              /\ r_queries.filtered_constructs_by_id = <<>>
                     => /\ ~Requested("POST readings/queries", r_i - 1)
                        /\ ~Requested("POST settings/queries", r_i - 1)
                        /\ ~DictHas(r_result, r_facilities[r_i - 1].short_name)

\* read has returned after two facilities: the first had a matched control
\* point and got a reading request, the second had no matched construct, got
\* no historical request and is not in the result
C26_Witness ==
    /\ r_pc = "done" /\ r_out.ok
    /\ Len(r_facilities) = 2
    /\ r_queries.filtered_constructs_by_id = <<>>
    /\ Requested("POST readings/queries", 1)
    /\ ~Requested("POST readings/queries", 2)
    /\ ~Requested("POST settings/queries", 2)
    /\ DictKeys(r_result) = {r_facilities[1].short_name}

\* C2, as claimed: with a naive start or end, read issues no transport
\* request and ends in an error, whatever the facilities hold.
C2_AsClaimed ==
    (Naive(r_args.start) \/ Naive(r_args.end))
        => /\ r_requests = <<>>
           /\ r_pc = "done" => ~r_out.ok

---------------------------------------------------------------------------
(* The matcher specification: one device and one list of metric specs are  *)
(* drawn, then the matcher runs.                                           *)

MatchAliases == {"", "Pressure", "SuctionPressure"}
MatchKinds == {"control_point", "setting"}
MatchIds == <<"c1", "c2", "c3", "c4", "c5">>

\* the devices of a matcher run: constructs have distinct ids
MatchDevices ==
    {Device("d1", "compressor",
            [i \in DOMAIN cs |-> Construct(MatchIds[i], cs[i][1], cs[i][2])]) :
        cs \in SeqsUpTo(MatchAliases \X MatchKinds, MaxConstructs)}

MatchSpecs ==
    {DeviceMetric(n, r, "compressor", t) :
        n \in {"", "SuctionPressure"}, r \in {"", "Pres", ".*Pressure"}, t \in MatchKinds}

MatchInit ==
    /\ m_pc = "start"
    /\ m_device \in MatchDevices
    /\ m_metrics \in SeqsUpTo(MatchSpecs, MaxSpecs) \ {<<>>}
    /\ m_result = <<>>

Match ==
    /\ m_pc = "start"
    /\ m_result' = get_filtered_constructs_by_id(m_device, m_metrics)
    /\ m_pc' = "done"
    /\ UNCHANGED <<m_device, m_metrics>>
    /\ UNCHANGED notMatchVars

MatchNext == Match

InitMatch == MatchInit /\ FilterIdle /\ GroupIdle /\ DecodeIdle /\ ReadIdle

SpecMatch == InitMatch /\ [][MatchNext]_vars

---------------------------------------------------------------------------
(* Properties of the matcher *)

\* every construct of a device, whatever its kind
DeviceAllConstructs(device) ==
    Range(device.control_points) \cup Range(device.metrics) \cup Range(device.outputs)
        \cup Range(device.conditions) \cup Range(device.settings)

C5_AsClaimed ==
    (m_pc = "done" /\ Len(m_metrics) = 1
        /\ m_metrics[1].name = "" /\ m_metrics[1].alias_regex # "")
        => DictValues(m_result) =
              {c \in DeviceAllConstructs(m_device) :
                  /\ c.metric_type = m_metrics[1].metric_type
                  /\ re_match(re_compile(m_metrics[1].alias_regex), c.alias)}

\* the specs of m_metrics in the order p
Permuted(p) == [i \in DOMAIN m_metrics |-> m_metrics[p[i]]]

\* C6: matching any permutation of the spec list (the list itself included)
\* against the same device yields the same set of construct ids.
C6_OrderIndependent ==
    m_pc = "done"
        => \A p \in Permutations(DOMAIN m_metrics) :
              DictKeys(get_filtered_constructs_by_id(m_device, Permuted(p))) = DictKeys(m_result)

\* two different specs of one kind, each matching a different set of
\* constructs, have been matched together
C6_Witness ==
    /\ m_pc = "done" /\ Len(m_metrics) = 2
    /\ m_metrics[1].metric_type = m_metrics[2].metric_type
    /\ m_metrics[1].alias_regex # "" /\ m_metrics[2].alias_regex # ""
    /\ DictKeys(get_filtered_constructs_by_id(m_device, <<m_metrics[1]>>))
          # DictKeys(get_filtered_constructs_by_id(m_device, <<m_metrics[2]>>))
    /\ DictKeys(m_result) # {}

=============================================================================
